---------------------------- MODULE Spec2Model ----------------------------
(***************************************************************************)
(* Request handlers of the smartmirror API (api/v1/endpoints):             *)
(*   Geolocator.get, CurrentWeather.get, HourlyForecast.get,               *)
(*   DailyForecast.get.                                                    *)
(*                                                                         *)
(* A handler is a straight-line function that blocks on at most two        *)
(* outbound calls (services.geolocator.getLocation and one of the          *)
(* services.weather functions).  Each handler is split at its outbound     *)
(* calls: the ...Get action runs the handler up to the first outbound      *)
(* call, ...Located resumes it with the result of getLocation, and         *)
(* ...Fetched resumes it with the result of the weather function.  The     *)
(* results of the providers are inputs chosen by the environment.          *)
(*                                                                         *)
(* Python values are records so that any two of them can be compared:      *)
(*   None          [none |-> TRUE]                                         *)
(*   float f       [float |-> f]                                           *)
(*   str s         [str |-> <<characters of s>>]                           *)
(*   dict          a record with the dict's keys                           *)
(***************************************************************************)
EXTENDS Integers, Sequences, FiniteSets

VARIABLES
    pc,             \* "idle" | "geo" (blocked in getLocation) | "weather" (blocked in a weather function) | "done"
    endpoint,       \* the handler serving the current request
    args,           \* result of <parser>.parse_args()
    location,       \* local variable `location`
    lat, lon,       \* local variables of CurrentWeather.get
    state, city,    \* local variables of HourlyForecast.get / DailyForecast.get
    weather,        \* local variable `weather`
    response_dict,  \* local variable `response_dict`
    code,           \* local variable `code`
    calls,          \* outbound calls issued by the current request, in order
    results,        \* what the outbound calls returned, in order
    prev            \* the previous request, once completed

vars == <<pc, endpoint, args, location, lat, lon, state, city, weather,
          response_dict, code, calls, results, prev>>

-----------------------------------------------------------------------------
(* Bounds and input domains *)

MaxCityLen == 2

None == [none |-> TRUE]

Float(f) == [float |-> f]

Str(s) == [str |-> s]

Chars == {"a", " "}

RECURSIVE SeqsUpTo(_)
SeqsUpTo(n) ==
    IF n = 0 THEN {<<>>}
    ELSE LET shorter == SeqsUpTo(n - 1)
         IN  shorter \cup {Append(s, c) : s \in {t \in shorter : Len(t) = n - 1}, c \in Chars}

CallerCities == {Str(s) : s \in SeqsUpTo(MaxCityLen)}

CallerStates == {Str(<<"C", "A">>)}

CallerLats == {Float(51), Float(52)}

CallerLons == {Float(0), Float(1)}

\* what current_weather_parser.parse_args() can return: both arguments optional
CurrentWeatherArgs ==
    [lat : CallerLats \cup {None}, lon : CallerLons \cup {None}]

\* what hourly_forecast_parser / daily_forecast_parser .parse_args() can return
ForecastArgs ==
    [state : CallerStates \cup {None}, city : CallerCities \cup {None}]

\* Location records services.geolocator.getLocation() can return
Locations ==
    { [latitude |-> Float(34), longitude |-> Float(-118),
       region_code |-> Str(<<"C", "A">>), city |-> Str(<<"L", " ", "A">>)],
      [latitude |-> Float(40), longitude |-> Float(-74),
       region_code |-> Str(<<"N", "Y">>), city |-> Str(<<"N", "Y", "C">>)] }

\* results of a weather function, opaque to the handlers
WeatherResults == { [weather |-> "w1"], [weather |-> "w2"] }

\* api.v1.http_codes: _200, _503 (TLA+ identifiers cannot start with _2) and EXT_ERR
HTTP_200 == 200

HTTP_503 == 503

EXT_ERR == "EXT_ERR"

-----------------------------------------------------------------------------
(* Helpers *)

\* str.replace(old, new) for single characters
replace(s, old, new) ==
    Str([i \in 1..Len(s.str) |-> IF s.str[i] = old THEN new ELSE s.str[i]])

\* an outbound call: services.geolocator.getLocation()
GeoCall == [svc |-> "geolocator", op |-> "getLocation", a1 |-> None, a2 |-> None]

\* an outbound call: services.weather.<op>(a1, a2)
WeatherCall(op, a1, a2) == [svc |-> "weather", op |-> op, a1 |-> a1, a2 |-> a2]

\* the completed request, remembered when the next one starts
RunSummary ==
    IF pc = "done"
    THEN [endpoint |-> endpoint, args |-> args, calls |-> calls, results |-> results,
          response_dict |-> response_dict, code |-> code]
    ELSE prev

Init ==
    /\ pc = "idle"
    /\ endpoint = "none"
    /\ args = None
    /\ location = None
    /\ lat = None
    /\ lon = None
    /\ state = None
    /\ city = None
    /\ weather = None
    /\ response_dict = None
    /\ code = 200
    /\ calls = <<>>
    /\ results = <<>>
    /\ prev = None

-----------------------------------------------------------------------------
(* Geolocator.get *)

GeolocatorGet ==
    /\ pc \in {"idle", "done"}
    /\ prev' = RunSummary
    /\ endpoint' = "geolocator"
    /\ args' = None
    /\ response_dict' = None
    /\ code' = 200
    /\ location' = None
    /\ lat' = None
    /\ lon' = None
    /\ state' = None
    /\ city' = None
    /\ weather' = None
    /\ calls' = <<GeoCall>>
    /\ results' = <<>>
    /\ pc' = "geo"

GeolocatorLocated_noCode(loc) ==
    /\ pc = "geo"
    /\ endpoint = "geolocator"
    /\ location' = loc
    /\ results' = Append(results, loc)
    /\ IF loc = None
       THEN /\ response_dict' = [status |-> HTTP_503, type |-> EXT_ERR,
                                 error_message |-> "Failed to make geolocation request"]
            /\ code' = code
       ELSE /\ response_dict' = [status |-> HTTP_200, data |-> loc]
            /\ code' = code
    /\ pc' = "done"
    /\ UNCHANGED <<endpoint, args, lat, lon, state, city, weather, calls, prev>>

GeolocatorLocated_latLonOnly(loc) ==
    /\ pc = "geo"
    /\ endpoint = "geolocator"
    /\ location' = loc
    /\ results' = Append(results, loc)
    /\ IF loc = None
       THEN /\ response_dict' = [status |-> HTTP_503, type |-> EXT_ERR,
                                 error_message |-> "Failed to make geolocation request"]
            /\ code' = 503
       ELSE /\ response_dict' = [status |-> HTTP_200,
                                 data |-> [latitude |-> loc.latitude, longitude |-> loc.longitude]]
            /\ code' = code
    /\ pc' = "done"
    /\ UNCHANGED <<endpoint, args, lat, lon, state, city, weather, calls, prev>>

GeolocatorLocated(loc) ==
    /\ pc = "geo"
    /\ endpoint = "geolocator"
    /\ location' = loc
    /\ results' = Append(results, loc)
    /\ IF loc = None
       THEN /\ response_dict' = [status |-> HTTP_503, type |-> EXT_ERR,
                                 error_message |-> "Failed to make geolocation request"]
            /\ code' = 503
       ELSE /\ response_dict' = [status |-> HTTP_200, data |-> loc]
            /\ code' = code
    /\ pc' = "done"
    /\ UNCHANGED <<endpoint, args, lat, lon, state, city, weather, calls, prev>>

-----------------------------------------------------------------------------
(* CurrentWeather.get *)

CurrentWeatherGet_and(a) ==
    /\ pc \in {"idle", "done"}
    /\ prev' = RunSummary
    /\ endpoint' = "current"
    /\ args' = a
    /\ response_dict' = None
    /\ code' = 200
    /\ location' = None
    /\ state' = None
    /\ city' = None
    /\ weather' = None
    /\ results' = <<>>
    /\ IF a.lat = None /\ a.lon = None
       THEN /\ lat' = None
            /\ lon' = None
            /\ calls' = <<GeoCall>>
            /\ pc' = "geo"
       ELSE /\ lat' = a.lat
            /\ lon' = a.lon
            /\ calls' = <<WeatherCall("getCurrentWeather", a.lat, a.lon)>>
            /\ pc' = "weather"

CurrentWeatherGet(a) ==
    /\ pc \in {"idle", "done"}
    /\ prev' = RunSummary
    /\ endpoint' = "current"
    /\ args' = a
    /\ response_dict' = None
    /\ code' = 200
    /\ location' = None
    /\ state' = None
    /\ city' = None
    /\ weather' = None
    /\ results' = <<>>
    /\ IF a.lat = None \/ a.lon = None
       THEN /\ lat' = None
            /\ lon' = None
            /\ calls' = <<GeoCall>>
            /\ pc' = "geo"
       ELSE /\ lat' = a.lat
            /\ lon' = a.lon
            /\ calls' = <<WeatherCall("getCurrentWeather", a.lat, a.lon)>>
            /\ pc' = "weather"

CurrentWeatherLocated_keepSupplied(loc) ==
    /\ pc = "geo"
    /\ endpoint = "current"
    /\ location' = loc
    /\ results' = Append(results, loc)
    /\ IF loc = None
       THEN /\ response_dict' = [status |-> HTTP_503, type |-> EXT_ERR,
                                 error_message |-> "Failed to make geolocation request"]
            /\ code' = 503
            /\ pc' = "done"
            /\ UNCHANGED <<lat, lon, calls>>
       ELSE LET la == IF args.lat = None THEN loc.latitude ELSE args.lat
                lo == IF args.lon = None THEN loc.longitude ELSE args.lon
            IN  /\ lat' = la
                /\ lon' = lo
                /\ calls' = Append(calls, WeatherCall("getCurrentWeather", la, lo))
                /\ pc' = "weather"
                /\ UNCHANGED <<response_dict, code>>
    /\ UNCHANGED <<endpoint, args, state, city, weather, prev>>

CurrentWeatherLocated(loc) ==
    /\ pc = "geo"
    /\ endpoint = "current"
    /\ location' = loc
    /\ results' = Append(results, loc)
    /\ IF loc = None
       THEN /\ response_dict' = [status |-> HTTP_503, type |-> EXT_ERR,
                                 error_message |-> "Failed to make geolocation request"]
            /\ code' = 503
            /\ pc' = "done"
            /\ UNCHANGED <<lat, lon, calls>>
       ELSE /\ lat' = loc.latitude
            /\ lon' = loc.longitude
            /\ calls' = Append(calls, WeatherCall("getCurrentWeather", loc.latitude, loc.longitude))
            /\ pc' = "weather"
            /\ UNCHANGED <<response_dict, code>>
    /\ UNCHANGED <<endpoint, args, state, city, weather, prev>>

CurrentWeatherFetched(w) ==
    /\ pc = "weather"
    /\ endpoint = "current"
    /\ weather' = w
    /\ results' = Append(results, w)
    /\ IF w = None
       THEN /\ response_dict' = [status |-> HTTP_503, type |-> EXT_ERR,
                                 error_message |-> "Failed to make weather request"]
            /\ code' = 503
       ELSE /\ response_dict' = [status |-> HTTP_200, data |-> w]
            /\ code' = code
    /\ pc' = "done"
    /\ UNCHANGED <<endpoint, args, location, lat, lon, state, city, calls, prev>>

-----------------------------------------------------------------------------
(* HourlyForecast.get *)

HourlyForecastGet_noReplace(a) ==
    /\ pc \in {"idle", "done"}
    /\ prev' = RunSummary
    /\ endpoint' = "hourly"
    /\ args' = a
    /\ response_dict' = None
    /\ code' = 200
    /\ location' = None
    /\ lat' = None
    /\ lon' = None
    /\ weather' = None
    /\ results' = <<>>
    /\ IF a.state = None \/ a.city = None
       THEN /\ state' = None
            /\ city' = None
            /\ calls' = <<GeoCall>>
            /\ pc' = "geo"
       ELSE /\ state' = a.state
            /\ city' = a.city
            /\ calls' = <<WeatherCall("getHourlyForecast", a.state, a.city)>>
            /\ pc' = "weather"

HourlyForecastGet(a) ==
    /\ pc \in {"idle", "done"}
    /\ prev' = RunSummary
    /\ endpoint' = "hourly"
    /\ args' = a
    /\ response_dict' = None
    /\ code' = 200
    /\ location' = None
    /\ lat' = None
    /\ lon' = None
    /\ weather' = None
    /\ results' = <<>>
    /\ IF a.state = None \/ a.city = None
       THEN /\ state' = None
            /\ city' = None
            /\ calls' = <<GeoCall>>
            /\ pc' = "geo"
       ELSE /\ state' = a.state
            /\ city' = replace(a.city, " ", "_")
            /\ calls' = <<WeatherCall("getHourlyForecast", a.state, replace(a.city, " ", "_"))>>
            /\ pc' = "weather"

HourlyForecastLocated(loc) ==
    /\ pc = "geo"
    /\ endpoint = "hourly"
    /\ location' = loc
    /\ results' = Append(results, loc)
    /\ IF loc = None
       THEN /\ response_dict' = [status |-> HTTP_503, type |-> EXT_ERR,
                                 error_message |-> "Failed to make geolocation request"]
            /\ code' = 503
            /\ pc' = "done"
            /\ UNCHANGED <<state, city, calls>>
       ELSE /\ state' = loc.region_code
            /\ city' = loc.city
            /\ calls' = Append(calls, WeatherCall("getHourlyForecast", loc.region_code, loc.city))
            /\ pc' = "weather"
            /\ UNCHANGED <<response_dict, code>>
    /\ UNCHANGED <<endpoint, args, lat, lon, weather, prev>>

HourlyForecastFetched_wrongMessage(w) ==
    /\ pc = "weather"
    /\ endpoint = "hourly"
    /\ weather' = w
    /\ results' = Append(results, w)
    /\ IF w = None
       THEN /\ response_dict' = [status |-> HTTP_503, type |-> EXT_ERR,
                                 error_message |-> "Failed to make weather request"]
            /\ code' = 503
       ELSE /\ response_dict' = [status |-> HTTP_200, data |-> w]
            /\ code' = code
    /\ pc' = "done"
    /\ UNCHANGED <<endpoint, args, location, lat, lon, state, city, calls, prev>>

HourlyForecastFetched(w) ==
    /\ pc = "weather"
    /\ endpoint = "hourly"
    /\ weather' = w
    /\ results' = Append(results, w)
    /\ IF w = None
       THEN /\ response_dict' = [status |-> HTTP_503, type |-> EXT_ERR,
                                 error_message |-> "Failed to make hourly forecast request"]
            /\ code' = 503
       ELSE /\ response_dict' = [status |-> HTTP_200, data |-> w]
            /\ code' = code
    /\ pc' = "done"
    /\ UNCHANGED <<endpoint, args, location, lat, lon, state, city, calls, prev>>

-----------------------------------------------------------------------------
(* DailyForecast.get *)

DailyForecastGet(a) ==
    /\ pc \in {"idle", "done"}
    /\ prev' = RunSummary
    /\ endpoint' = "daily"
    /\ args' = a
    /\ response_dict' = None
    /\ code' = 200
    /\ location' = None
    /\ lat' = None
    /\ lon' = None
    /\ weather' = None
    /\ results' = <<>>
    /\ IF a.state = None \/ a.city = None
       THEN /\ state' = None
            /\ city' = None
            /\ calls' = <<GeoCall>>
            /\ pc' = "geo"
       ELSE /\ state' = a.state
            /\ city' = replace(a.city, " ", "_")
            /\ calls' = <<WeatherCall("getDailyForecast", a.state, replace(a.city, " ", "_"))>>
            /\ pc' = "weather"

DailyForecastLocated_noReturn(loc) ==
    /\ pc = "geo"
    /\ endpoint = "daily"
    /\ location' = loc
    /\ results' = Append(results, loc)
    /\ IF loc = None
       THEN /\ response_dict' = [status |-> HTTP_503, type |-> EXT_ERR,
                                 error_message |-> "Failed to make geolocation request"]
            /\ code' = 503
            /\ calls' = Append(calls, WeatherCall("getDailyForecast", state, city))
            /\ pc' = "weather"
            /\ UNCHANGED <<state, city>>
       ELSE /\ state' = loc.region_code
            /\ city' = loc.city
            /\ calls' = Append(calls, WeatherCall("getDailyForecast", loc.region_code, loc.city))
            /\ pc' = "weather"
            /\ UNCHANGED <<response_dict, code>>
    /\ UNCHANGED <<endpoint, args, lat, lon, weather, prev>>

DailyForecastLocated(loc) ==
    /\ pc = "geo"
    /\ endpoint = "daily"
    /\ location' = loc
    /\ results' = Append(results, loc)
    /\ IF loc = None
       THEN /\ response_dict' = [status |-> HTTP_503, type |-> EXT_ERR,
                                 error_message |-> "Failed to make geolocation request"]
            /\ code' = 503
            /\ pc' = "done"
            /\ UNCHANGED <<state, city, calls>>
       ELSE /\ state' = loc.region_code
            /\ city' = loc.city
            /\ calls' = Append(calls, WeatherCall("getDailyForecast", loc.region_code, loc.city))
            /\ pc' = "weather"
            /\ UNCHANGED <<response_dict, code>>
    /\ UNCHANGED <<endpoint, args, lat, lon, weather, prev>>

DailyForecastFetched_noCode(w) ==
    /\ pc = "weather"
    /\ endpoint = "daily"
    /\ weather' = w
    /\ results' = Append(results, w)
    /\ IF w = None
       THEN /\ response_dict' = [status |-> HTTP_503, type |-> EXT_ERR,
                                 error_message |-> "Failed to make daily forecast request"]
            /\ code' = code
       ELSE /\ response_dict' = [status |-> HTTP_200, data |-> w]
            /\ code' = code
    /\ pc' = "done"
    /\ UNCHANGED <<endpoint, args, location, lat, lon, state, city, calls, prev>>

DailyForecastFetched_retry(w) ==
    /\ pc = "weather"
    /\ endpoint = "daily"
    /\ weather' = w
    /\ results' = Append(results, w)
    /\ IF w = None
       THEN /\ response_dict' = [status |-> HTTP_503, type |-> EXT_ERR,
                                 error_message |-> "Failed to make daily forecast request"]
            /\ code' = 503
       ELSE /\ response_dict' = [status |-> HTTP_200, data |-> w]
            /\ code' = code
    /\ pc' = IF w = None /\ Len(calls) < 3 THEN "weather" ELSE "done"
    /\ calls' = IF w = None /\ Len(calls) < 3
                THEN Append(calls, WeatherCall("getDailyForecast", state, city))
                ELSE calls
    /\ UNCHANGED <<endpoint, args, location, lat, lon, state, city, prev>>

DailyForecastFetched(w) ==
    /\ pc = "weather"
    /\ endpoint = "daily"
    /\ weather' = w
    /\ results' = Append(results, w)
    /\ IF w = None
       THEN /\ response_dict' = [status |-> HTTP_503, type |-> EXT_ERR,
                                 error_message |-> "Failed to make daily forecast request"]
            /\ code' = 503
       ELSE /\ response_dict' = [status |-> HTTP_200, data |-> w]
            /\ code' = code
    /\ pc' = "done"
    /\ UNCHANGED <<endpoint, args, location, lat, lon, state, city, calls, prev>>

-----------------------------------------------------------------------------
(* The server: one request at a time, each run to completion *)

Next ==
    \/ GeolocatorGet
    \/ \E loc \in Locations \cup {None} : GeolocatorLocated(loc)
    \/ \E a \in CurrentWeatherArgs : CurrentWeatherGet(a)
    \/ \E loc \in Locations \cup {None} : CurrentWeatherLocated(loc)
    \/ \E w \in WeatherResults \cup {None} : CurrentWeatherFetched(w)
    \/ \E a \in ForecastArgs : HourlyForecastGet(a)
    \/ \E loc \in Locations \cup {None} : HourlyForecastLocated(loc)
    \/ \E w \in WeatherResults \cup {None} : HourlyForecastFetched(w)
    \/ \E a \in ForecastArgs : DailyForecastGet(a)
    \/ \E loc \in Locations \cup {None} : DailyForecastLocated(loc)
    \/ \E w \in WeatherResults \cup {None} : DailyForecastFetched(w)

Spec == Init /\ [][Next]_vars

-----------------------------------------------------------------------------
(* Vocabulary of the properties *)

WeatherEndpoints == {"current", "hourly", "daily"}

ForecastEndpoints == {"hourly", "daily"}

GeoCallIdx == {i \in 1..Len(calls) : calls[i].svc = "geolocator"}

WeatherCallIdx == {i \in 1..Len(calls) : calls[i].svc = "weather"}

GeolocationFailed == \E i \in GeoCallIdx : i <= Len(results) /\ results[i] = None

WeatherFailed == \E i \in WeatherCallIdx : i <= Len(results) /\ results[i] = None

AllCallsSucceeded ==
    /\ Len(results) = Len(calls)
    /\ \A i \in 1..Len(results) : results[i] # None

\* both location parameters of the endpoint were supplied
CompleteArgs(ep, a) ==
    CASE ep = "current" -> a.lat # None /\ a.lon # None
      [] ep \in ForecastEndpoints -> a.state # None /\ a.city # None
      [] OTHER -> FALSE

\* exactly one location parameter of the endpoint was supplied
PartialArgs(ep, a) ==
    CASE ep = "current" -> (a.lat = None) # (a.lon = None)
      [] ep \in ForecastEndpoints -> (a.state = None) # (a.city = None)
      [] OTHER -> FALSE

\* no location parameter of the endpoint was supplied
AbsentArgs(ep, a) ==
    CASE ep = "current" -> a.lat = None /\ a.lon = None
      [] ep \in ForecastEndpoints -> a.state = None /\ a.city = None
      [] OTHER -> FALSE

HasSpace(s) == \E k \in 1..Len(s.str) : s.str[k] = " "

IsErrorEnvelope(d, msg) ==
    /\ DOMAIN d = {"status", "type", "error_message"}
    /\ d.type = EXT_ERR
    /\ d.error_message = msg

-----------------------------------------------------------------------------
\* C1: in the three weather handlers, once the geolocation call has failed
\* the request has made no weather call and never makes one: it is finished,
\* with HTTP 503, type EXT_ERR and "Failed to make geolocation request".
C1_ShortCircuit ==
    (endpoint \in WeatherEndpoints /\ GeolocationFailed) =>
        /\ WeatherCallIdx = {}
        /\ pc = "done"
        /\ code = 503
        /\ IsErrorEnvelope(response_dict, "Failed to make geolocation request")

C1_Witness ==
    /\ endpoint = "daily"
    /\ AbsentArgs(endpoint, args)
    /\ GeolocationFailed
    /\ pc = "done"

\* C2: every forecast call to the weather provider carries a city without
\* spaces, whether the city came from the caller or from the resolved Location.
C2_CityNormalized ==
    \A i \in WeatherCallIdx :
        calls[i].op \in {"getHourlyForecast", "getDailyForecast"} => ~HasSpace(calls[i].a2)

\* C3 as stated: with complete location parameters no geolocation call is
\* made and the weather provider is called with the supplied values verbatim.
C3_SuppliedValuesVerbatim ==
    (pc # "idle" /\ CompleteArgs(endpoint, args)) =>
        /\ GeoCallIdx = {}
        /\ calls = << CASE endpoint = "current" ->
                             WeatherCall("getCurrentWeather", args.lat, args.lon)
                        [] endpoint = "hourly" ->
                             WeatherCall("getHourlyForecast", args.state, args.city)
                        [] endpoint = "daily" ->
                             WeatherCall("getDailyForecast", args.state, args.city) >>

\* C3 amended: with complete location parameters no geolocation call is made
\* and the weather provider is called once, with the supplied lat and lon, or
\* with the supplied state and the supplied city with its spaces replaced by
\* underscores.
C3_SuppliedValuesForwarded ==
    (pc # "idle" /\ CompleteArgs(endpoint, args)) =>
        /\ GeoCallIdx = {}
        /\ calls = << CASE endpoint = "current" ->
                             WeatherCall("getCurrentWeather", args.lat, args.lon)
                        [] endpoint = "hourly" ->
                             WeatherCall("getHourlyForecast", args.state,
                                         replace(args.city, " ", "_"))
                        [] endpoint = "daily" ->
                             WeatherCall("getDailyForecast", args.state,
                                         replace(args.city, " ", "_")) >>

C3_Witness ==
    /\ endpoint = "hourly"
    /\ CompleteArgs(endpoint, args)
    /\ HasSpace(args.city)
    /\ pc = "done"
    /\ code = 200

\* C4: a /weather/current request missing lat or lon makes exactly one
\* geolocation call, as its first outbound call; a weather call is made only
\* after that call returned a Location, and with its latitude and longitude.
C4_GeoOnceBeforeWeather ==
    (endpoint = "current" /\ pc # "idle" /\ ~CompleteArgs(endpoint, args)) =>
        /\ Cardinality(GeoCallIdx) = 1
        /\ calls[1] = GeoCall
        /\ \A i \in WeatherCallIdx :
              /\ i = 2
              /\ Len(results) >= 1
              /\ results[1] # None
              /\ calls[i] = WeatherCall("getCurrentWeather",
                                        results[1].latitude, results[1].longitude)
        /\ (Len(results) >= 1 /\ results[1] # None) => WeatherCallIdx = {2}

C4_Witness ==
    /\ endpoint = "current"
    /\ args.lat # None
    /\ args.lon = None
    /\ pc = "done"
    /\ code = 200

\* C5: a finished request has HTTP code 200 and an envelope of exactly status
\* and data, all of its outbound calls having succeeded, or HTTP code 503 and
\* an envelope of exactly status, type EXT_ERR and error_message; the code is
\* never anything but 200 or 503.
C5_NoPartialSuccess ==
    /\ code \in {200, 503}
    /\ pc = "done" =>
        \/ /\ code = 200
           /\ DOMAIN response_dict = {"status", "data"}
           /\ AllCallsSucceeded
        \/ /\ code = 503
           /\ DOMAIN response_dict = {"status", "type", "error_message"}
           /\ response_dict.type = EXT_ERR

C5_Witness ==
    /\ pc = "done"
    /\ code = 200
    /\ Len(calls) = 2
    /\ "data" \in DOMAIN response_dict

\* C6: when the weather call fails the request ends with HTTP 503, type
\* EXT_ERR and the message of its endpoint, whether the location was supplied
\* or resolved.
C6_WeatherFailureMessage ==
    (pc = "done" /\ WeatherFailed) =>
        /\ code = 503
        /\ IsErrorEnvelope(response_dict,
              CASE endpoint = "current" -> "Failed to make weather request"
                [] endpoint = "hourly" -> "Failed to make hourly forecast request"
                [] endpoint = "daily" -> "Failed to make daily forecast request")

C6_Witness ==
    /\ endpoint = "hourly"
    /\ pc = "done"
    /\ WeatherFailed
    /\ GeoCallIdx # {}

C8_PartialIsAbsent ==
    (pc = "done" /\ PartialArgs(endpoint, args)) =>
        /\ (/\ prev # None
            /\ prev.endpoint = endpoint
            /\ AbsentArgs(prev.endpoint, prev.args)
            /\ prev.results = results)
           => /\ calls = prev.calls
              /\ response_dict = prev.response_dict
              /\ code = prev.code
        /\ \A i \in WeatherCallIdx :
              /\ calls[i].a1 = (IF endpoint = "current" THEN location.latitude
                                ELSE location.region_code)
              /\ calls[i].a2 = (IF endpoint = "current" THEN location.longitude
                                ELSE location.city)

C8_Witness ==
    /\ pc = "done"
    /\ endpoint = "current"
    /\ PartialArgs(endpoint, args)
    /\ prev # None
    /\ prev.endpoint = endpoint
    /\ AbsentArgs(prev.endpoint, prev.args)
    /\ prev.results = results
    /\ code = 200

\* C9: a geolocation request makes the geolocation call and no other; it ends
\* with HTTP 200 and the Location the provider returned as data, or, when the
\* provider returned none, with HTTP 503, type EXT_ERR and "Failed to make
\* geolocation request".
C9_GeolocatorEndpoint ==
    endpoint = "geolocator" =>
        /\ calls = <<GeoCall>>
        /\ pc = "done" =>
              IF results[1] = None
              THEN /\ code = 503
                   /\ IsErrorEnvelope(response_dict, "Failed to make geolocation request")
              ELSE /\ code = 200
                   /\ DOMAIN response_dict = {"status", "data"}
                   /\ response_dict.data = results[1]

C9_Witness ==
    /\ endpoint = "geolocator"
    /\ pc = "done"
    /\ code = 200
    /\ results[1] \in Locations

\* C10: a request makes at most one geolocation call and at most one weather
\* call; a call is issued only when every earlier call has returned; the
\* geolocation call, if any, precedes the weather call; and a call that failed
\* is the last call of the request, which is then finished.
C10_AtMostTwoSequentialCalls ==
    /\ Cardinality(GeoCallIdx) <= 1
    /\ Cardinality(WeatherCallIdx) <= 1
    /\ \A i \in GeoCallIdx : \A j \in WeatherCallIdx : i < j
    /\ Len(results) <= Len(calls)
    /\ Len(calls) - Len(results) <= 1
    /\ \A i \in 1..Len(results) :
          results[i] = None => (Len(calls) = i /\ pc = "done")

C10_Witness ==
    /\ Len(calls) = 2
    /\ Len(results) = 2
    /\ results[2] = None
    /\ pc = "done"

=============================================================================
